---- MODULE Spec2Model ----
(***************************************************************************)
(* Model of scripts/extract_pptx_text.py: the batch driver main, the       *)
(* per-file extract_one, and the helpers sanitize_stem, iter_shape_text,   *)
(* collect_media, slide_notes and shape_summary.                           *)
(*                                                                         *)
(* Strings are sequences of one-character strings, so that strip, the      *)
(* regular-expression substitutions and the joins are computed.  A line of *)
(* the Markdown document is a record [kind, n, text, parts] holding the    *)
(* values its f-string formats.                                            *)
(***************************************************************************)
EXTENDS Integers, Sequences, FiniteSets, TLC

VARIABLES
    files,      \* main: pptx_files, the sorted list of discovered inputs
    pc,         \* position of main (or of the sanitize_stem call)
    idx,        \* main: index of the loop over pptx_files
    docs,       \* file system: Markdown documents under docs/, path -> lines
    media,      \* file system: files under docs/media, name -> bytes
    temp,       \* file system: whether docs/__temp_unzip__ exists
    console,    \* lines printed so far
    arg,        \* sanitize_stem: the argument of the call
    ret         \* sanitize_stem: the value returned

vars == <<files, pc, idx, docs, media, temp, console, arg, ret>>

----------------------------------------------------------------------------
(* Bounds of the model. *)

MaxStemLen == 3     \* longest base name given to sanitize_stem
MaxShapes == 2      \* most shapes in one deck
MaxParas == 2       \* most paragraphs in one deck
MaxSlides == 2      \* most slides in one deck
MaxLevel == 5       \* deepest paragraph level drawn
MaxFiles == 3       \* most input files in one batch

(* Program constants. *)

LevelClamp == 4     \* min(level, 4)
IndentWidth == 2    \* "  " * ...

----------------------------------------------------------------------------
(* Characters and strings. *)

Letters ==
    {"a","b","c","d","e","f","g","h","i","j","k","l","m",
     "n","o","p","q","r","s","t","u","v","w","x","y","z",
     "A","B","C","D","E","F","G","H","I","J","K","L","M",
     "N","O","P","Q","R","S","T","U","V","W","X","Y","Z"}

Digits == {"0","1","2","3","4","5","6","7","8","9"}

\* \s of the re module, and the characters str.strip() removes
IsSpace(c) == c \in {" ", "\t", "\n", "\r", "\f"}

\* the complement of the class [^A-Za-z0-9_\-]
IsKept(c) == c \in Letters \cup Digits \cup {"_", "-"}

SeqsUpTo(S, n) == UNION {[1..k -> S] : k \in 0..n}

RECURSIVE LStrip(_)
LStrip(s) ==
    IF s = <<>> THEN <<>>
    ELSE IF IsSpace(Head(s)) THEN LStrip(Tail(s)) ELSE s

RECURSIVE RStrip(_)
RStrip(s) ==
    IF s = <<>> THEN <<>>
    ELSE IF IsSpace(s[Len(s)]) THEN RStrip(SubSeq(s, 1, Len(s) - 1)) ELSE s

\* str.strip()
Strip(s) == RStrip(LStrip(s))

\* "".join(xs)
RECURSIVE Join(_)
Join(xs) == IF xs = <<>> THEN <<>> ELSE Head(xs) \o Join(Tail(xs))

----------------------------------------------------------------------------
(* sanitize_stem *)

\* re.sub(r"\s+", "_", stem): every maximal run of whitespace becomes one "_"
RECURSIVE CollapseWhitespace(_)
CollapseWhitespace(s) ==
    IF s = <<>> THEN <<>>
    ELSE IF IsSpace(Head(s))
         THEN <<"_">> \o CollapseWhitespace(LStrip(s))
         ELSE <<Head(s)>> \o CollapseWhitespace(Tail(s))

\* re.sub(r"[^A-Za-z0-9_\-]", "", s)
RemoveOthers(s) == SelectSeq(s, IsKept)

FallbackStem == <<"s","l","i","d","e","s">>

\* a sanitize_stem that forgets the fallback name
sanitize_stem_NoFallback(stem) == RemoveOthers(CollapseWhitespace(stem))

sanitize_stem(stem) ==
    LET s == RemoveOthers(CollapseWhitespace(stem))
    IN  IF s = <<>> THEN FallbackStem ELSE s

----------------------------------------------------------------------------
(* Lines of the Markdown document. *)

Line(kind, n, text, parts) ==
    [kind |-> kind, n |-> n, text |-> text, parts |-> parts]

Blank == Line("blank", 0, <<>>, <<>>)                   \* ""
TitleLine(name) == Line("title", 0, name, <<>>)         \* f"# {name}"
TotalLine(n) == Line("total", n, <<>>, <<>>)            \* f"**Total media ...**: {n}"
HeadingLine(i) == Line("heading", i, <<>>, <<>>)        \* f"## Slide {i}"
BulletLine(w, text) == Line("bullet", w, text, <<>>)    \* f"{indent}- {text}"
NoTextLine == Line("notext", 0, <<>>, <<>>)             \* "_(tidak ada teks ...)_"
NotesLabel == Line("noteslabel", 0, <<>>, <<>>)         \* "**Catatan (Notes):**"
NotesLine(text) == Line("notes", 0, text, <<>>)         \* f"> {notes}"
SummaryLine(parts) == Line("summary", 0, <<>>, parts)   \* f"**Ringkasan ...:** {summary}"
AdvisoryLine == Line("advisory", 0, <<>>, <<>>)         \* "_Rekomendasi: ..._"

----------------------------------------------------------------------------
(* iter_shape_text, iter_shape_text_loop *)

Min(a, b) == IF a < b THEN a ELSE b

\* "".join(run.text for run in para.runs) or para.text or ""
ParaText(para) ==
    IF Join(para.runs) # <<>> THEN Join(para.runs) ELSE para.text

\* an iter_shape_text that does not skip the paragraphs left empty by strip
iter_shape_text_KeepEmpty(shape) ==
    IF shape.has_text_frame
    THEN [k \in 1..Len(shape.paragraphs) |->
             [level |-> shape.paragraphs[k].level,
              text |-> Strip(ParaText(shape.paragraphs[k]))]]
    ELSE <<>>

\* the (level, text) pairs one shape yields
iter_shape_text(shape) ==
    IF shape.has_text_frame
    THEN LET kept == SelectSeq(shape.paragraphs,
                               LAMBDA para : Strip(ParaText(para)) # <<>>)
         IN  [k \in 1..Len(kept) |->
                 [level |-> kept[k].level, text |-> Strip(ParaText(kept[k]))]]
    ELSE <<>>

RECURSIVE iter_shape_text_loop(_)
iter_shape_text_loop(shapes) ==
    IF shapes = <<>> THEN <<>>
    ELSE iter_shape_text(Head(shapes)) \o iter_shape_text_loop(Tail(shapes))

----------------------------------------------------------------------------
(* slide_notes *)

slide_notes(slide) ==
    IF slide.has_notes /\ Strip(slide.notes) # <<>> THEN Strip(slide.notes) ELSE <<>>

----------------------------------------------------------------------------
(* shape_summary *)

CountKeys == <<"picture", "table", "chart", "group", "other">>

\* a classification that does not filter the text-frame shapes out of "other"
Bucket_TextFramesAsOther(shape) ==
    CASE shape.shape_type = "PICTURE" -> "picture"
      [] shape.shape_type = "TABLE" -> "table"
      [] shape.shape_type = "CHART" -> "chart"
      [] shape.shape_type = "GROUP" -> "group"
      [] OTHER -> "other"

\* the key of counts that one shape increments, or "none"
Bucket(shape) ==
    CASE shape.shape_type = "PICTURE" -> "picture"
      [] shape.shape_type = "TABLE" -> "table"
      [] shape.shape_type = "CHART" -> "chart"
      [] shape.shape_type = "GROUP" -> "group"
      [] OTHER -> IF shape.has_text_frame THEN "none" ELSE "other"

Count(shapes, key) ==
    Cardinality({k \in 1..Len(shapes) : Bucket(shapes[k]) = key})

\* the non-zero counts in the order of the dict; <<>> stands for the
\* sentence "tidak ada shape non-teks"
shape_summary(slide) ==
    LET nonzero == SelectSeq(CountKeys, LAMBDA key : Count(slide.shapes, key) > 0)
    IN  [k \in 1..Len(nonzero) |-> <<nonzero[k], Count(slide.shapes, nonzero[k])>>]

\* "picture:" in summary
HasPictureCount(summary) == \E k \in 1..Len(summary) : summary[k][1] = "picture"

----------------------------------------------------------------------------
(* extract_one: the lines of the document *)

TextLines(slide) ==
    LET pairs == iter_shape_text_loop(slide.shapes)
    IN  IF pairs = <<>>
        THEN <<NoTextLine>>
        ELSE [k \in 1..Len(pairs) |->
                 BulletLine(IndentWidth * Min(pairs[k].level, LevelClamp),
                            pairs[k].text)]

NotesBlock(slide) ==
    IF slide_notes(slide) # <<>>
    THEN <<Blank, NotesLabel, NotesLine(slide_notes(slide))>>
    ELSE <<>>

Advisory(slide) ==
    IF /\ HasPictureCount(shape_summary(slide))
       /\ iter_shape_text_loop(slide.shapes) = <<>>
       /\ slide_notes(slide) = <<>>
    THEN <<Blank, AdvisoryLine>>
    ELSE <<>>

\* a loop body that appends the shape summary before the notes block
SlideSection_SummaryFirst(slide, i) ==
    <<HeadingLine(i)>> \o TextLines(slide)
        \o <<Blank, SummaryLine(shape_summary(slide))>>
        \o NotesBlock(slide)
        \o Advisory(slide) \o <<Blank>>

\* what one pass of the loop over prs.slides appends
SlideSection(slide, i) ==
    <<HeadingLine(i)>> \o TextLines(slide) \o NotesBlock(slide)
        \o <<Blank, SummaryLine(shape_summary(slide))>>
        \o Advisory(slide) \o <<Blank>>

RECURSIVE SlideSections(_, _)
SlideSections(slides, i) ==
    IF i > Len(slides) THEN <<>>
    ELSE SlideSection(slides[i], i) \o SlideSections(slides, i + 1)

PptxSuffix == <<".", "p", "p", "t", "x">>
MdSuffix == <<".", "m", "d">>

DocumentLines(f, media_list) ==
    <<TitleLine(f.stem \o PptxSuffix), Blank,
      TotalLine(Cardinality(media_list)), Blank>>
        \o SlideSections(f.deck, 1)

\* out_dir / f"{stem}.md"
OutPath(f) == sanitize_stem(f.stem) \o MdSuffix

----------------------------------------------------------------------------
(* collect_media *)

Put(fn, key, value) ==
    [x \in DOMAIN fn \cup {key} |-> IF x = key THEN value ELSE fn[x]]

\* one pass of the loop over media_root.iterdir(): copy unless the target exists
CopyIfAbsent(m, name, bytes) ==
    IF name \in DOMAIN m THEN m ELSE Put(m, name, bytes)

RECURSIVE CopyAll(_, _, _)
CopyAll(m, parts, names) ==
    IF names = {} THEN m
    ELSE LET name == CHOOSE x \in names : TRUE
         IN  CopyAll(CopyIfAbsent(m, name, parts[name]), parts, names \ {name})

\* a collect_media that reports only the files it copied
Exported_OnlyCopied(m, f) == DOMAIN f.media \ DOMAIN m

\* the names appended to exported: one per entry of ppt/media
Exported(m, f) == DOMAIN f.media

\* the file system and the list collect_media leaves: docs/media, the
\* temporary unzip directory (removed at the end), and exported
collect_media(m, f) ==
    [media |-> CopyAll(m, f.media, DOMAIN f.media),
     temp |-> FALSE,
     exported |-> Exported(m, f)]

----------------------------------------------------------------------------
(* extract_one and main *)

DocsDir == <<"d", "o", "c", "s">>

\* "docs" in f.parts
InDocs(f) == \E k \in 1..Len(f.dir) : f.dir[k] = DocsDir

Wrote(path) == [msg |-> "Wrote", path |-> path]
NoFiles == [msg |-> "No PPTX files found.", path |-> <<>>]

MainStart ==
    /\ pc = "start"
    /\ IF files = <<>>
       THEN /\ console' = Append(console, NoFiles)
            /\ pc' = "done"
            /\ idx' = idx
       ELSE /\ console' = console
            /\ pc' = "loop"
            /\ idx' = 1
    /\ UNCHANGED <<files, docs, media, temp, arg, ret>>

LoopSkip ==
    /\ pc = "loop"
    /\ idx <= Len(files)
    /\ InDocs(files[idx])
    /\ idx' = idx + 1
    /\ UNCHANGED <<files, pc, docs, media, temp, console, arg, ret>>

\* what a call of extract_one that returns leaves: the file system and the
\* path it prints
extract_one(d, m, f) ==
    LET got == collect_media(m, f)
    IN  [docs |-> Put(d, OutPath(f), DocumentLines(f, got.exported)),
         media |-> got.media,
         temp |-> got.temp,
         wrote |-> OutPath(f)]

\* extract_one returns
LoopExtract ==
    /\ pc = "loop"
    /\ idx <= Len(files)
    /\ ~InDocs(files[idx])
    /\ files[idx].ok
    /\ LET out == extract_one(docs, media, files[idx])
       IN  /\ docs' = out.docs
           /\ media' = out.media
           /\ temp' = out.temp
           /\ console' = Append(console, Wrote(out.wrote))
    /\ idx' = idx + 1
    /\ UNCHANGED <<files, pc, arg, ret>>

\* Presentation(...) raises: nothing catches it, main ends
LoopFail ==
    /\ pc = "loop"
    /\ idx <= Len(files)
    /\ ~InDocs(files[idx])
    /\ ~files[idx].ok
    /\ pc' = "crashed"
    /\ UNCHANGED <<files, idx, docs, media, temp, console, arg, ret>>

LoopEnd ==
    /\ pc = "loop"
    /\ idx > Len(files)
    /\ pc' = "done"
    /\ UNCHANGED <<files, idx, docs, media, temp, console, arg, ret>>

\* a call of sanitize_stem on its own
CallSanitize ==
    /\ pc = "call"
    /\ ret' = sanitize_stem(arg)
    /\ pc' = "return"
    /\ UNCHANGED <<files, idx, docs, media, temp, console, arg>>

----------------------------------------------------------------------------
(* Inputs. *)

Para(runs, text, level) == [runs |-> runs, text |-> text, level |-> level]

TextShape(paras) ==
    [shape_type |-> "AUTO_SHAPE", has_text_frame |-> TRUE, paragraphs |-> paras,
     alt |-> <<>>, name |-> <<>>, resolves |-> FALSE]

Picture(alt, name, resolves) ==
    [shape_type |-> "PICTURE", has_text_frame |-> FALSE, paragraphs |-> <<>>,
     alt |-> alt, name |-> name, resolves |-> resolves]

Plain(type) ==
    [shape_type |-> type, has_text_frame |-> FALSE, paragraphs |-> <<>>,
     alt |-> <<>>, name |-> <<>>, resolves |-> FALSE]

Slide(shapes, has_notes, notes) ==
    [shapes |-> shapes, has_notes |-> has_notes, notes |-> notes]

File(dir, stem, ok, deck, parts) ==
    [dir |-> dir, stem |-> stem, ok |-> ok, deck |-> deck, media |-> parts]

NoMedia == <<>>

\* runs and para.text of the paragraphs drawn: an empty paragraph, a
\* paragraph holding only a field, one holding only whitespace, and one of
\* two runs with whitespace at both ends and inside
EmptyPara == [runs |-> <<>>, text |-> <<>>]
FieldPara == [runs |-> <<>>, text |-> <<"7">>]
SpacePara == [runs |-> << <<" ", "\t">> >>, text |-> <<" ", "\t">>]
WordsPara ==
    [runs |-> << <<" ", "a", " ">>, <<"b", "\n">> >>,
     text |-> <<" ", "a", " ", "b", "\n">>]

ParaSamples ==
    {Para(r.runs, r.text, 0) : r \in {EmptyPara, FieldPara, SpacePara, WordsPara}}
        \cup {Para(WordsPara.runs, WordsPara.text, l) : l \in {1, LevelClamp, MaxLevel}}

\* a text frame holds at least one paragraph
TextShapeSamples(budget) ==
    {TextShape(ps) : ps \in SeqsUpTo(ParaSamples, budget) \ {<<>>}} \cup {Plain("LINE")}

\* the sequences of at most n shapes holding at most budget paragraphs
RECURSIVE TextShapeSeqs(_, _)
TextShapeSeqs(n, budget) ==
    IF n = 0 THEN {<<>>}
    ELSE {<<>>} \cup
         UNION { { <<sh>> \o rest :
                     rest \in TextShapeSeqs(n - 1, budget - Len(sh.paragraphs)) } :
                 sh \in TextShapeSamples(budget) }

\* the decks of one slide holding text frames
TextDecks(n, budget) ==
    { <<Slide(shapes, FALSE, <<>>)>> : shapes \in TextShapeSeqs(n, budget) }

MixedShapeSamples ==
    { TextShape(<<Para(<<>>, <<>>, 0)>>),
      TextShape(<<Para(<< <<"a">> >>, <<"a">>, 1)>>),
      Picture(<<"D">>, <<"P">>, TRUE),
      Picture(<<>>, <<>>, TRUE),
      Plain("TABLE"), Plain("CHART"), Plain("GROUP"), Plain("LINE") }

\* no notes slide, and notes with whitespace around them
NoteSamples ==
    { [has_notes |-> FALSE, notes |-> <<>>],
      [has_notes |-> TRUE, notes |-> <<" ", "n", "\n">>] }

SlideSamples(budget) ==
    { Slide(shapes, nt.has_notes, nt.notes) :
        shapes \in SeqsUpTo(MixedShapeSamples, budget), nt \in NoteSamples }

\* the decks of at most n slides holding at most budget shapes
RECURSIVE MixedDecks(_, _)
MixedDecks(n, budget) ==
    IF n = 0 THEN {<<>>}
    ELSE {<<>>} \cup
         UNION { { <<sl>> \o rest :
                     rest \in MixedDecks(n - 1, budget - Len(sl.shapes)) } :
                 sl \in SlideSamples(budget) }

StemChars == {"a", "Z", "7", "_", "-", ".", " ", "\t", "#"}

\* the .pptx files of the repository tree, in the order sorted() gives
\* their paths; each deck is one slide
SmallDeck(shapes) == <<Slide(shapes, FALSE, <<>>)>>

Catalogue ==
    << File(<<>>, <<"a", " ", "b">>, TRUE,
            SmallDeck(<<TextShape(<<Para(<< <<"a">> >>, <<"a">>, 0)>>)>>),
            [n \in {"image1.png"} |-> 1]),
       File(<<>>, <<"a", "_", "b">>, TRUE,
            SmallDeck(<<Picture(<<"D">>, <<"P">>, TRUE)>>),
            [n \in {"image1.png", "image2.png"} |-> IF n = "image1.png" THEN 2 ELSE 3]),
       File(<<>>, <<"b", "a", "d">>, FALSE, <<>>, NoMedia),
       File(<<DocsDir>>, <<"c">>, TRUE, SmallDeck(<<>>), NoMedia),
       File(<< <<"s", "u", "b">> >>, <<"a", "_", "b">>, TRUE,
            SmallDeck(<<Plain("TABLE")>>), NoMedia),
       File(<< <<"s", "u", "b">> >>, <<"e">>, TRUE,
            SmallDeck(<<>>), [n \in {"image3.png"} |-> 4]) >>

\* the entries of Catalogue chosen by the index set I, in order
Pick(I) ==
    LET sel == SelectSeq([k \in 1..Len(Catalogue) |-> k], LAMBDA k : k \in I)
    IN  [j \in 1..Len(sel) |-> Catalogue[sel[j]]]

Batches(n) ==
    { Pick(I) : I \in {J \in SUBSET (1..Len(Catalogue)) : Cardinality(J) <= n} }

----------------------------------------------------------------------------
(* Specifications. *)

InitMain(batches) ==
    /\ files \in batches
    /\ pc = "start"
    /\ idx = 0
    /\ docs = <<>>
    /\ media = <<>>
    /\ console = <<>>
    /\ arg = <<>>
    /\ ret = <<>>

\* main over a batch of files of the catalogue; a temporary directory may
\* be left from an interrupted run
Init == InitMain(Batches(MaxFiles)) /\ temp \in BOOLEAN

Next == MainStart \/ LoopSkip \/ LoopExtract \/ LoopFail \/ LoopEnd

Spec == Init /\ [][Next]_vars

OneFile(deck) == <<File(<<>>, <<"t">>, TRUE, deck, NoMedia)>>

\* main over one file whose single slide holds text frames
InitText == InitMain({OneFile(d) : d \in TextDecks(MaxShapes, MaxParas)}) /\ temp = FALSE

\* main over one file whose slides hold shapes of every kind
InitDeck == InitMain({OneFile(d) : d \in MixedDecks(MaxSlides, MaxShapes)}) /\ temp = FALSE

NextOne == MainStart \/ LoopExtract \/ LoopEnd

SpecText == InitText /\ [][NextOne]_vars

SpecDeck == InitDeck /\ [][NextOne]_vars

\* sanitize_stem applied to every base name up to MaxStemLen characters
InitSan ==
    /\ arg \in SeqsUpTo(StemChars, MaxStemLen)
    /\ pc = "call"
    /\ ret = <<>>
    /\ files = <<>>
    /\ idx = 0
    /\ docs = <<>>
    /\ media = <<>>
    /\ temp = FALSE
    /\ console = <<>>

NextSan == CallSanitize

SpecSan == InitSan /\ [][NextSan]_vars

----------------------------------------------------------------------------
(* Reading a written document back. *)

HeadingIdx(doc) == {k \in 1..Len(doc) : doc[k].kind = "heading"}

\* the lines from the i-th heading up to the next heading
Section(doc, i) ==
    LET at(n) == CHOOSE k \in HeadingIdx(doc) :
                     Cardinality({j \in HeadingIdx(doc) : j <= k}) = n
        last == IF i < Cardinality(HeadingIdx(doc)) THEN at(i + 1) - 1 ELSE Len(doc)
    IN  SubSeq(doc, at(i), last)

Contains(lines, line) == \E k \in 1..Len(lines) : lines[k] = line

\* the files main has passed that extract_one was called on and returned
Extracted == {i \in 1..Len(files) : i < idx /\ ~InDocs(files[i])}

\* the single input of SpecText and SpecDeck, and its document
TheFile == files[1]
TheDoc == docs[OutPath(TheFile)]

Pictures(slide) ==
    {k \in 1..Len(slide.shapes) : slide.shapes[k].shape_type = "PICTURE"}

\* the paragraphs of a slide's shapes, in shape order then paragraph order
RECURSIVE AllParagraphs(_)
AllParagraphs(shapes) ==
    IF shapes = <<>> THEN <<>>
    ELSE Head(shapes).paragraphs \o AllParagraphs(Tail(shapes))

HasText(slide) ==
    \E k \in 1..Len(AllParagraphs(slide.shapes)) :
        Strip(ParaText(AllParagraphs(slide.shapes)[k])) # <<>>

HasNotes(slide) == slide.has_notes /\ Strip(slide.notes) # <<>>

----------------------------------------------------------------------------
(* Claims about sanitize_stem (SpecSan). *)

\* C5: sanitize_stem is total: whatever the base name (empty, only symbols,
\* only whitespace), the result is non-empty and each of its characters is
\* a letter, a digit, underscore, hyphen or dot.
C5_SanitizeTotal ==
    pc = "return" =>
        /\ ret # <<>>
        /\ \A k \in 1..Len(ret) : ret[k] \in Letters \cup Digits \cup {"_", "-", "."}

\* a base name of MaxStemLen symbols, sanitized to the fallback name
C5_Witness ==
    /\ pc = "return"
    /\ Len(arg) = MaxStemLen
    /\ \A k \in 1..Len(arg) : arg[k] \in {"#", "."}
    /\ ret = FallbackStem

----------------------------------------------------------------------------
(* Claims about the text lines of a slide (SpecText). *)

\* the bullet the claim gives for one paragraph
ExpectedBullet(para) ==
    BulletLine(IF para.level < LevelClamp THEN IndentWidth * para.level
                                          ELSE IndentWidth * LevelClamp,
               Strip(ParaText(para)))

ExpectedBullets(slide) ==
    LET kept == SelectSeq(AllParagraphs(slide.shapes),
                          LAMBDA para : Strip(ParaText(para)) # <<>>)
    IN  [k \in 1..Len(kept) |-> ExpectedBullet(kept[k])]

\* C7: the bullet lines of a slide are exactly one per paragraph whose
\* trimmed text is non-empty, in shape order then paragraph order, each
\* indented by two spaces times min(level, 4) and holding the trimmed text;
\* a paragraph whose trimmed text is empty gives no line.
C7_BulletLines ==
    pc = "done" =>
        SelectSeq(Section(TheDoc, 1), LAMBDA line : line.kind = "bullet")
            = ExpectedBullets(TheFile.deck[1])

\* two shapes: a paragraph dropped because strip leaves nothing, and a
\* paragraph deeper than the clamp whose trimmed text differs from its text
C7_Witness ==
    /\ pc = "done"
    /\ Len(TheFile.deck[1].shapes) = 2
    /\ LET ps == AllParagraphs(TheFile.deck[1].shapes)
       IN  /\ Len(ps) = 2
           /\ ParaText(ps[1]) # <<>> /\ Strip(ParaText(ps[1])) = <<>>
           /\ ps[2].level > LevelClamp
           /\ Strip(ParaText(ps[2])) # ParaText(ps[2])
           /\ Strip(ParaText(ps[2])) # <<>>
    /\ Contains(TheDoc, BulletLine(IndentWidth * LevelClamp, <<"a", " ", "b">>))

----------------------------------------------------------------------------
(* Claims about the section of a slide (SpecDeck). *)

\* the label of the image line of the n-th picture of a slide
ImageLabel(shape, n) ==
    IF shape.alt # <<>> THEN shape.alt
    ELSE <<"P", "i", "c", "t", "u", "r", "e", " ">> \o <<ToString(n)>>

\* C1: for every picture whose reference resolves to an embedded part, the
\* section of its slide holds an image reference line labelled with the
\* picture's alt-text, or with "Picture N" when the alt-text is empty.
C1_ImageLines ==
    pc = "done" =>
        \A i \in 1..Len(TheFile.deck) :
            \A k \in Pictures(TheFile.deck[i]) :
                TheFile.deck[i].shapes[k].resolves =>
                    \E j \in 1..Len(Section(TheDoc, i)) :
                        /\ Section(TheDoc, i)[j].kind = "image"
                        /\ Section(TheDoc, i)[j].text
                               = ImageLabel(TheFile.deck[i].shapes[k], k)

\* the part of the section, 1 to 6, a line belongs to (0: a line of none)
PartNo(line) ==
    CASE line.kind = "heading" -> 1
      [] line.kind \in {"bullet", "notext"} -> 2
      [] line.kind \in {"noteslabel", "notes"} -> 3
      [] line.kind = "image" -> 4
      [] line.kind = "summary" -> 5
      [] line.kind = "advisory" -> 6
      [] OTHER -> 0

InOrder(sec) ==
    /\ \A j, k \in 1..Len(sec) :
           (j < k /\ PartNo(sec[j]) > 0 /\ PartNo(sec[k]) > 0)
               => PartNo(sec[j]) <= PartNo(sec[k])
    /\ \A part \in {1, 5, 6} :
           Cardinality({k \in 1..Len(sec) : PartNo(sec[k]) = part}) <= 1

\* C6: the lines of every slide come in the fixed order heading, text lines
\* or placeholder, notes block, image lines, shape summary, advisory; no
\* part comes before a part with a smaller number, and the headings of
\* successive slides carry the ordinals 1, 2, 3, ... in deck order.
C6_FixedOrder ==
    pc = "done" =>
        /\ Cardinality(HeadingIdx(TheDoc)) = Len(TheFile.deck)
        /\ \A i \in 1..Len(TheFile.deck) :
               /\ Section(TheDoc, i)[1] = HeadingLine(i)
               /\ InOrder(Section(TheDoc, i))

\* two slides: one with a bullet and a notes block, one with an advisory
C6_Witness ==
    /\ pc = "done"
    /\ Len(TheFile.deck) = 2
    /\ \E i \in 1..2 :
           /\ \E k \in 1..Len(Section(TheDoc, i)) : Section(TheDoc, i)[k].kind = "bullet"
           /\ \E k \in 1..Len(Section(TheDoc, i)) : Section(TheDoc, i)[k].kind = "notes"
    /\ \E i \in 1..2 : Contains(Section(TheDoc, i), AdvisoryLine)

KnownTypes == {"PICTURE", "TABLE", "CHART", "GROUP"}

NoKnownShapes(slide) ==
    \A k \in 1..Len(slide.shapes) : slide.shapes[k].shape_type \notin KnownTypes

\* C8 as claimed: a slide with no paragraph of non-empty trimmed text and no
\* picture, table, chart or group has the "no text detected" line and the
\* "no non-text shapes" summary, whatever other shapes it holds.
C8_AsClaimed ==
    pc = "done" =>
        \A i \in 1..Len(TheFile.deck) :
            (~HasText(TheFile.deck[i]) /\ NoKnownShapes(TheFile.deck[i])) =>
                /\ Contains(Section(TheDoc, i), NoTextLine)
                /\ Contains(Section(TheDoc, i), SummaryLine(<<>>))

\* C8 amended: a slide with no paragraph of non-empty trimmed text, no
\* picture, table, chart or group, and no shape of another kind that lacks a
\* text frame has the "no text detected" line and the "no non-text shapes"
\* summary.
C8_NoTextNoShapes ==
    pc = "done" =>
        \A i \in 1..Len(TheFile.deck) :
            ( /\ ~HasText(TheFile.deck[i])
              /\ NoKnownShapes(TheFile.deck[i])
              /\ \A k \in 1..Len(TheFile.deck[i].shapes) :
                     TheFile.deck[i].shapes[k].has_text_frame ) =>
                /\ Contains(Section(TheDoc, i), NoTextLine)
                /\ Contains(Section(TheDoc, i), SummaryLine(<<>>))

\* a slide whose only shapes are text frames with nothing in them
C8_Witness ==
    /\ pc = "done"
    /\ Len(TheFile.deck) >= 1
    /\ Len(TheFile.deck[1].shapes) = 2
    /\ \A k \in 1..2 : TheFile.deck[1].shapes[k].has_text_frame
    /\ Len(AllParagraphs(TheFile.deck[1].shapes)) >= 1
    /\ ~HasText(TheFile.deck[1])
    /\ Contains(Section(TheDoc, 1), NoTextLine)
    /\ Contains(Section(TheDoc, 1), SummaryLine(<<>>))

\* C9: the advisory is emitted for a slide exactly when a picture on it has
\* neither alt-text nor a name, or when it has a picture but neither a text
\* line nor non-empty notes.
C9_AdvisoryTriggers ==
    pc = "done" =>
        \A i \in 1..Len(TheFile.deck) :
            LET slide == TheFile.deck[i]
                unnamed == \E k \in Pictures(slide) :
                               slide.shapes[k].alt = <<>> /\ slide.shapes[k].name = <<>>
                bare == Pictures(slide) # {} /\ ~HasText(slide) /\ ~HasNotes(slide)
            IN  Contains(Section(TheDoc, i), AdvisoryLine) <=> (unnamed \/ bare)

----------------------------------------------------------------------------
(* Claims about a batch (Spec). *)

\* C2: once decks have been processed into the output directory, every
\* embedded part that collect_media reported as exported is on disk under
\* docs/media with exactly the bytes of its deck's part.
C2_ExportedBytes ==
    \A i \in Extracted :
        \A name \in Exported(media, files[i]) :
            name \in DOMAIN media /\ media[name] = files[i].media[name]

\* C3: a file for which extract_one fails does not keep the other files from
\* being processed: when main has ended, the document of every input that
\* opens and is not under docs has been written.
C3_ErrorsIsolated ==
    pc \in {"done", "crashed"} =>
        \A i \in 1..Len(files) :
            (~InDocs(files[i]) /\ files[i].ok) =>
                Contains(console, Wrote(OutPath(files[i])))

\* C4: two distinct inputs processed in one batch write distinct documents:
\* no path is written twice.
C4_DistinctPaths ==
    \A i, j \in Extracted : i # j => OutPath(files[i]) # OutPath(files[j])

\* C10: running extract_one again on the file it has just returned for, with
\* the output directory as that run left it, writes the same document and
\* leaves docs/media and its bytes as they were, and no temporary directory.
C10_Idempotent ==
    (pc = "loop" /\ idx - 1 \in Extracted) =>
        LET f == files[idx - 1]
            again == extract_one(docs, media, f)
        IN  /\ again.docs = docs
            /\ again.media = media
            /\ ~temp /\ ~again.temp

\* extract_one has returned for a second deck, one of whose parts has the
\* name of a part the first deck had exported with other bytes
C10_Witness ==
    /\ pc = "loop"
    /\ idx = 3
    /\ Extracted = {1, 2}
    /\ \E name \in DOMAIN files[2].media :
           /\ name \in DOMAIN files[1].media
           /\ media[name] # files[2].media[name]
    /\ \E name \in DOMAIN files[2].media : name \notin DOMAIN files[1].media

====
